---- MODULE Spec2Model ----
(***************************************************************************)
(* Model of CodexCLICompletion (crewai/llms/providers/codex_cli/           *)
(* completion.py): the call() method as a state machine over a shared      *)
(* temporary directory, together with the pure helpers _messages_to_prompt *)
(* and _format_codex_overrides.                                            *)
(*                                                                         *)
(* Text is a sequence of one-character strings, so that str.strip(),       *)
(* str.upper(), str.join() are computed character by character.  Command   *)
(* line tokens are TLA+ strings.                                           *)
(***************************************************************************)
EXTENDS Integers, Sequences, FiniteSets, TLC

VARIABLES
    cfg,        \* the gateway instance: the fields __init__ sets
    fs,         \* the temporary directory: path -> file
    call        \* per thread: the locals of its call() and where it stands

vars == <<cfg, fs, call>>

(***************************************************************************)
(* Bounds                                                                  *)
(***************************************************************************)
\* number of names tempfile can pick from, per suffix
NumNames == 2
\* longest message list handed to _messages_to_prompt
MaxMsgs == 2

\* the threads that may invoke call() on the one gateway instance, once each
Threads == {"t1", "t2"}

(***************************************************************************)
(* Python values                                                           *)
(***************************************************************************)
\* the None of an optional string field
None == "<None>"

\* truthiness of an optional string: None and "" are falsy
Truthy(s) == s # None /\ s # ""

\* characters str.strip() removes
Whitespace == {" ", "\n", "\t"}

RECURSIVE LStrip(_)
LStrip(s) == IF s = <<>> THEN s
             ELSE IF Head(s) \in Whitespace THEN LStrip(Tail(s)) ELSE s

RECURSIVE RStrip(_)
RStrip(s) == IF s = <<>> THEN s
             ELSE IF s[Len(s)] \in Whitespace THEN RStrip(SubSeq(s, 1, Len(s) - 1))
             ELSE s

\* str.strip()
Strip(s) == RStrip(LStrip(s))

\* a or b, on strings
Or(a, b) == IF a # <<>> THEN a ELSE b

LowerCase == <<"a", "b", "c", "d", "e", "f", "g", "h", "i", "j", "k", "l", "m",
               "n", "o", "p", "q", "r", "s", "t", "u", "v", "w", "x", "y", "z">>
UpperCase == <<"A", "B", "C", "D", "E", "F", "G", "H", "I", "J", "K", "L", "M",
               "N", "O", "P", "Q", "R", "S", "T", "U", "V", "W", "X", "Y", "Z">>

UpperChar(c) ==
    IF \E i \in 1..Len(LowerCase) : LowerCase[i] = c
    THEN UpperCase[CHOOSE i \in 1..Len(LowerCase) : LowerCase[i] = c]
    ELSE c

\* str.upper()
Upper(s) == [i \in 1..Len(s) |-> UpperChar(s[i])]

\* sep.join(parts)
RECURSIVE Join(_, _)
Join(parts, sep) ==
    IF parts = <<>> THEN <<>>
    ELSE IF Len(parts) = 1 THEN parts[1]
    ELSE parts[1] \o sep \o Join(Tail(parts), sep)

\* all sequences over S of length 0..n
SeqsUpTo(S, n) == UNION {[1..k -> S] : k \in 0..n}

(***************************************************************************)
(* _messages_to_prompt                                                     *)
(***************************************************************************)
\* a content part: a string, or a non-string value (an integer here)
StrPart(s) == [isStr |-> TRUE, s |-> s, n |-> 0]
IntPart(n) == [isStr |-> FALSE, s |-> <<>>, n |-> n]

DigitChar(n) == CASE n = 0 -> "0" [] n = 1 -> "1" [] n = 2 -> "2" [] n = 3 -> "3"
                  [] n = 4 -> "4" [] n = 5 -> "5" [] n = 6 -> "6" [] n = 7 -> "7"
                  [] n = 8 -> "8" [] OTHER -> "9"

\* str(part)
Str(part) == IF part.isStr THEN part.s ELSE <<DigitChar(part.n)>>

\* msg.get("role", "user")
GetRole(msg) == IF msg.hasRole THEN msg.role ELSE <<"u", "s", "e", "r">>

\* msg.get("content", ""), a list flattened with single spaces
GetContent(msg) ==
    IF ~msg.hasContent THEN <<>>
    ELSE IF msg.isList THEN Join([i \in 1..Len(msg.parts) |-> Str(msg.parts[i])], <<" ">>)
    ELSE msg.content

\* f"{role.upper()}: {content}"
FormatLine(msg) == Upper(GetRole(msg)) \o <<":", " ">> \o GetContent(msg)

NoStrip(s) == s

\* the final .strip() of the joined lines
StripJoined(s) == Strip(s)

MessagesToPrompt(messages) ==
    IF messages.isStr THEN messages.s
    ELSE StripJoined(Join([i \in 1..Len(messages.msgs) |-> FormatLine(messages.msgs[i])], <<"\n">>))

(***************************************************************************)
(* _format_codex_overrides                                                 *)
(***************************************************************************)
\* an element of a list override: a string, or a non-string value
StrItem(s) == [isStr |-> TRUE, s |-> s]
IntItem == [isStr |-> FALSE, s |-> ""]

\* a value of a mapping override
NoneVal == [kind |-> "none", n |-> 0, s |-> ""]
IntVal(n) == [kind |-> "int", n |-> n, s |-> ""]
StrVal(s) == [kind |-> "str", n |-> 0, s |-> s]
BoolVal(b) == [kind |-> "bool", n |-> IF b THEN 1 ELSE 0, s |-> ""]
\* a value json.dumps rejects with TypeError
ObjVal == [kind |-> "obj", n |-> 0, s |-> "<object>"]

NoOverrides == [kind |-> "none", items |-> <<>>, entries |-> <<>>]
ListOverrides(items) == [kind |-> "list", items |-> items, entries |-> <<>>]
DictOverrides(entries) == [kind |-> "dict", items |-> <<>>, entries |-> entries]

\* json.dumps(value) for the values it accepts
JsonDumps(v) ==
    CASE v.kind = "int" -> ToString(v.n)
      [] v.kind = "str" -> "\"" \o v.s \o "\""
      [] v.kind = "bool" -> IF v.n = 1 THEN "true" ELSE "false"
      [] OTHER -> "null"

\* try json.dumps(value) except TypeError: str(value)
ValueStr(v) == IF v.kind = "obj" THEN v.s ELSE JsonDumps(v)

RECURSIVE StringItems(_)
StringItems(items) ==
    IF items = <<>> THEN <<>>
    ELSE IF Head(items).isStr THEN <<Head(items).s>> \o StringItems(Tail(items))
    ELSE StringItems(Tail(items))

RECURSIVE EntryArgs(_)
EntryArgs(entries) ==
    IF entries = <<>> THEN <<>>
    ELSE IF Head(entries).value.kind = "none" THEN EntryArgs(Tail(entries))
    ELSE <<"-c", Head(entries).key \o "=" \o ValueStr(Head(entries).value)>>
         \o EntryArgs(Tail(entries))

FormatCodexOverrides(overrides) ==
    IF overrides.kind = "none" \/ (overrides.items = <<>> /\ overrides.entries = <<>>)
    THEN <<>>
    ELSE IF overrides.kind = "list" THEN StringItems(overrides.items)
    ELSE EntryArgs(overrides.entries)

(***************************************************************************)
(* The command line                                                        *)
(***************************************************************************)
RECURSIVE AddDirArgs(_)
AddDirArgs(dirs) ==
    IF dirs = <<>> THEN <<>>
    ELSE <<"--add-dir", Head(dirs)>> \o AddDirArgs(Tail(dirs))

SandboxFirst(c) ==
    (IF Truthy(c.codex_sandbox) THEN <<"--sandbox", c.codex_sandbox>> ELSE <<>>)
    \o (IF c.codex_skip_git_repo_check THEN <<"--skip-git-repo-check">> ELSE <<>>)

\* the flags between --cd and --full-auto
RepoCheckAndSandbox(c) ==
    (IF c.codex_skip_git_repo_check THEN <<"--skip-git-repo-check">> ELSE <<>>)
    \o (IF Truthy(c.codex_sandbox) THEN <<"--sandbox", c.codex_sandbox>> ELSE <<>>)

\* the command as built before any temporary file is created
BaseCommand(c) ==
    <<c.codex_path, "exec", "-m", c.model>>
    \o (IF Truthy(c.codex_cd) THEN <<"--cd", c.codex_cd>> ELSE <<>>)
    \o RepoCheckAndSandbox(c)
    \o (IF c.codex_full_auto THEN <<"--full-auto">> ELSE <<>>)
    \o (IF c.codex_dangerously_bypass_approvals_and_sandbox
        THEN <<"--dangerously-bypass-approvals-and-sandbox">> ELSE <<>>)
    \o AddDirArgs(c.codex_add_dir)
    \o FormatCodexOverrides(c.codex_config_overrides)

(***************************************************************************)
(* The temporary directory                                                 *)
(***************************************************************************)
\* names tempfile.NamedTemporaryFile() can return
CapturePaths == {"/tmp/tmp" \o ToString(i) : i \in 1..NumNames}
\* names tempfile.mkstemp(suffix=".json") can return
SchemaPaths == {"/tmp/tmp" \o ToString(i) \o ".json" : i \in 1..NumNames}

Paths == CapturePaths \cup SchemaPaths

NoFile == [exists |-> FALSE, owner |-> "", content |-> <<>>]

\* a file as created on behalf of the call of thread t
NewFile(t) == [exists |-> TRUE, owner |-> t, content |-> <<>>]

\* os.path.exists(path), with the `path and` guard in front of it
Exists(f, path) == path # None /\ f[path].exists

RemoveNothing(f, path) == f

\* os.remove(path), when it succeeds
Remove(f, path) == [f EXCEPT ![path] = NoFile]

\* what json.dump writes for the response model's schema
SchemaText == <<"{", "}">>

(***************************************************************************)
(* The child process                                                       *)
(***************************************************************************)
NoResult == [kind |-> "none", returncode |-> 0, stdout |-> <<>>, stderr |-> <<>>]

Exit(rc, out, err) == [kind |-> "exit", returncode |-> rc, stdout |-> out, stderr |-> err]

\* subprocess.run raised TimeoutExpired, which carries the output read so far
TimedOut(out) == [kind |-> "timeout", returncode |-> 0, stdout |-> out, stderr |-> <<>>]

\* what the child does to the file named by --output-last-message
Untouched == [op |-> "none", text |-> <<>>]
Deleted == [op |-> "delete", text |-> <<>>]
Written(text) == [op |-> "write", text |-> text]

ApplyEffect(f, path, eff, t) ==
    CASE eff.op = "write" ->
           [f EXCEPT ![path] = IF f[path].exists
                               THEN [f[path] EXCEPT !.content = eff.text]
                               ELSE [NewFile(t) EXCEPT !.content = eff.text]]
      [] eff.op = "delete" -> [f EXCEPT ![path] = NoFile]
      [] OTHER -> f

(***************************************************************************)
(* Outcomes of call()                                                      *)
(***************************************************************************)
NoOutcome == [kind |-> "none", value |-> <<>>]
Return(text) == [kind |-> "return", value |-> text]
Raise(exc, msg) == [kind |-> exc, value |-> msg]

GenericFailure == <<"codex exec failed">>

StdoutFirst(r) == Or(Or(Strip(r.stdout), Strip(r.stderr)), GenericFailure)

\* details = stderr or stdout or "codex exec failed", both stripped
FailureDetails(r) == Or(Or(Strip(r.stderr), Strip(r.stdout)), GenericFailure)

ReadUntrimmed(f, path, r) ==
    IF Exists(f, path) THEN f[path].content ELSE Strip(r.stdout)

NonEmptyFileOnly(f, path, r) ==
    IF Exists(f, path) /\ f[path].content # <<>>
    THEN Strip(f[path].content)
    ELSE Strip(r.stdout)

\* the capture file if it exists, else stdout
ExtractResponse(f, path, r) ==
    IF Exists(f, path) THEN Strip(f[path].content) ELSE Strip(r.stdout)

\* the test `result.returncode != 0` is false
ExitedZero(r) == r.returncode = 0

TimeoutAsResponse(r) ==
    IF r.kind = "timeout" THEN Return(Strip(r.stdout)) ELSE NoOutcome

\* what is pending when subprocess.run is over: its TimeoutExpired, or nothing yet
RunOutcome(r) ==
    IF r.kind = "timeout" THEN Raise("TimeoutExpired", <<>>) ELSE NoOutcome

RaiseOSError(pending, ok) == IF ok THEN pending ELSE Raise("OSError", <<>>)

\* try: os.remove(path) except OSError: pass
RemoveSwallowed(pending, ok) == pending

(***************************************************************************)
(* call()                                                                  *)
(***************************************************************************)
NoMessages == [isStr |-> TRUE, s |-> <<>>, msgs |-> <<>>]

IdleCall == [pc |-> "idle",
             messages |-> NoMessages, response_model |-> "none",
             prompt |-> <<>>, cmd |-> <<>>,
             schema_file |-> None, output_path |-> None,
             result |-> NoResult, outcome |-> NoOutcome,
             attempted |-> {}, failed |-> {}]

\* the call has returned or raised: its locals are gone
Finished(c) == [c EXCEPT !.pc = "done", !.messages = NoMessages,
                         !.prompt = <<>>, !.cmd = <<>>,
                         !.schema_file = None, !.output_path = None]

\* lines 77-99: flatten the prompt, build the command up to the overrides
Begin(t, reqs) ==
    /\ call[t].pc = "idle"
    /\ \E req \in reqs :
         call' = [call EXCEPT ![t] =
                    [IdleCall EXCEPT
                       !.pc = IF req.response_model = "none" THEN "capture" ELSE "schema",
                       !.messages = req.messages,
                       !.response_model = req.response_model,
                       !.prompt = MessagesToPrompt(req.messages),
                       !.cmd = BaseCommand(cfg)]]
    /\ UNCHANGED <<cfg, fs>>

\* lines 101-102: tempfile.mkstemp(suffix=".json") creates a file under a
\* name no existing file has
StageSchema(t) ==
    /\ call[t].pc = "schema"
    /\ \E p \in SchemaPaths :
         /\ ~fs[p].exists
         /\ fs' = [fs EXCEPT ![p] = NewFile(t)]
         /\ call' = [call EXCEPT ![t].schema_file = p, ![t].pc = "schema_write"]
    /\ UNCHANGED cfg

\* lines 103-105: the schema is generated and written, the flag pair appended
WriteSchema(t) ==
    /\ call[t].pc = "schema_write"
    /\ call[t].response_model = "ok"
    /\ fs' = [fs EXCEPT ![call[t].schema_file].content = SchemaText]
    /\ call' = [call EXCEPT ![t].cmd = @ \o <<"--output-schema", call[t].schema_file>>,
                            ![t].pc = "capture"]
    /\ UNCHANGED cfg

\* lines 103-104: model_json_schema() or json.dump raises; the statement is
\* outside the try block, so the exception leaves call() at once
WriteSchemaRaises(t) ==
    /\ call[t].pc = "schema_write"
    /\ call[t].response_model = "bad"
    /\ call' = [call EXCEPT ![t] = Finished([call[t] EXCEPT
                                      !.outcome = Raise("SchemaError", <<>>)])]
    /\ UNCHANGED <<cfg, fs>>

\* lines 110-112: NamedTemporaryFile(delete=False) creates the capture file
CreateCapture(t) ==
    /\ call[t].pc = "capture"
    /\ \E p \in CapturePaths :
         /\ ~fs[p].exists
         /\ fs' = [fs EXCEPT ![p] = NewFile(t)]
         /\ call' = [call EXCEPT ![t].output_path = p,
                                 ![t].cmd = @ \o <<"--output-last-message", p>>,
                                 ![t].pc = "run"]
    /\ UNCHANGED cfg

\* line 110 raises OSError: output_path stays None, the finally block runs
CreateCaptureRaises(t) ==
    /\ call[t].pc = "capture"
    /\ call' = [call EXCEPT ![t].outcome = Raise("OSError", <<>>),
                            ![t].pc = "cleanup_capture"]
    /\ UNCHANGED <<cfg, fs>>

\* lines 114-120: the child reads the prompt and runs to its exit, or is killed
\* at the deadline when a timeout is configured; messages and prompt are not
\* used again
Run(t, results, effects) ==
    /\ call[t].pc = "run"
    /\ \E eff \in effects, res \in results :
         /\ res.kind = "timeout" => cfg.timeout # None
         /\ fs' = ApplyEffect(fs, call[t].output_path, eff, t)
         /\ call' = [call EXCEPT
                       ![t].messages = NoMessages,
                       ![t].prompt = <<>>,
                       ![t].result = res,
                       ![t].outcome = RunOutcome(res),
                       ![t].pc = IF res.kind = "timeout"
                                 THEN "cleanup_capture" ELSE "decide"]
    /\ UNCHANGED cfg

\* lines 122-133: raise on a non-zero exit, else extract the response
Decide(t) ==
    /\ call[t].pc = "decide"
    /\ call' = [call EXCEPT
                  ![t].outcome =
                      IF ExitedZero(call[t].result)
                      THEN Return(ExtractResponse(fs, call[t].output_path, call[t].result))
                      ELSE Raise("RuntimeError", FailureDetails(call[t].result)),
                  ![t].pc = "cleanup_capture"]
    /\ UNCHANGED <<cfg, fs>>

ToCleanupSchema(c) == [c EXCEPT !.pc = "cleanup_schema"]

\* where the call stands after the block for the capture file, and after
\* the block for the schema file
AfterBlock(c, which) == IF which = "capture" THEN ToCleanupSchema(c) ELSE Finished(c)

\* one `if path and os.path.exists(path): try: os.remove(path) ...` block
RemoveStep(t, which, path) ==
    IF Exists(fs, path)
    THEN \E ok \in BOOLEAN :
           /\ fs' = IF ok THEN Remove(fs, path) ELSE fs
           /\ call' = [call EXCEPT ![t] =
                         AfterBlock([call[t] EXCEPT
                            !.attempted = @ \cup {which},
                            !.failed = IF ok THEN @ ELSE @ \cup {which},
                            !.outcome = RemoveSwallowed(@, ok)], which)]
    ELSE /\ fs' = fs
         /\ call' = [call EXCEPT ![t] = AfterBlock(call[t], which)]

\* lines 135-139
CleanupCapture(t) ==
    /\ call[t].pc = "cleanup_capture"
    /\ RemoveStep(t, "capture", call[t].output_path)
    /\ UNCHANGED cfg

\* lines 140-144, after which the pending return or raise takes effect
CleanupSchema(t) ==
    /\ call[t].pc = "cleanup_schema"
    /\ RemoveStep(t, "schema", call[t].schema_file)
    /\ UNCHANGED cfg

(***************************************************************************)
(* Gateway instances, requests and child behaviours                        *)
(***************************************************************************)
\* __init__ with its defaults and a timeout
DefaultConfig ==
    [codex_path |-> "codex", model |-> "gpt-5.2-codex",
     codex_cd |-> None, codex_add_dir |-> <<>>,
     codex_skip_git_repo_check |-> TRUE, codex_sandbox |-> None,
     codex_full_auto |-> FALSE,
     codex_dangerously_bypass_approvals_and_sandbox |-> FALSE,
     codex_config_overrides |-> NoOverrides, timeout |-> "30.0"]

OverrideInputs ==
    {NoOverrides,
     ListOverrides(<<StrItem("-c"), StrItem("k=v"), IntItem>>),
     DictOverrides(<<[key |-> "a", value |-> IntVal(1)],
                     [key |-> "n", value |-> NoneVal],
                     [key |-> "b", value |-> StrVal("x")]>>),
     DictOverrides(<<[key |-> "o", value |-> ObjVal],
                     [key |-> "f", value |-> BoolVal(FALSE)]>>)}

Configs ==
    [codex_path : {"codex"}, model : {"gpt-5.2-codex"},
     codex_cd : {None, "", "/w"},
     codex_add_dir : {<<>>, <<"/x">>, <<"/y", "/x">>},
     codex_skip_git_repo_check : BOOLEAN,
     codex_sandbox : {None, "read-only"},
     codex_full_auto : BOOLEAN,
     codex_dangerously_bypass_approvals_and_sandbox : BOOLEAN,
     codex_config_overrides : OverrideInputs,
     timeout : {None, "30.0"}]

RawString(s) == [isStr |-> TRUE, s |-> s, msgs |-> <<>>]
MessageList(msgs) == [isStr |-> FALSE, s |-> <<>>, msgs |-> msgs]

Msg(role, content) == [hasRole |-> TRUE, role |-> role, hasContent |-> TRUE,
                       isList |-> FALSE, content |-> content, parts |-> <<>>]
MsgParts(role, parts) == [hasRole |-> TRUE, role |-> role, hasContent |-> TRUE,
                          isList |-> TRUE, content |-> <<>>, parts |-> parts]
\* a message with neither key
EmptyMsg == [hasRole |-> FALSE, role |-> <<>>, hasContent |-> FALSE,
             isList |-> FALSE, content |-> <<>>, parts |-> <<>>]

MsgPool ==
    {Msg(<<"u", "s", "e", "r">>, <<"h", "i">>),
     Msg(<<"u", "s", "e", "r">>, <<" ", "h", "i", "\n">>),
     Msg(<<" ", "s", "y", "s">>, <<>>),
     MsgParts(<<"a", "s", "s", "t">>, <<StrPart(<<"a">>), StrPart(<<"b">>)>>),
     MsgParts(<<"u", "s", "e", "r">>, <<IntPart(7), StrPart(<<" ">>)>>),
     EmptyMsg}

MessageInputs ==
    {RawString(s) : s \in {<<>>, <<"h", "i">>, <<" ", "h", "i">>, <<"h", "i", "\n">>}}
    \cup {MessageList(m) : m \in SeqsUpTo(MsgPool, MaxMsgs)}

ResponseModels == {"none", "ok", "bad"}

SomeMessages == MessageList(<<Msg(<<"u", "s", "e", "r">>, <<"h", "i">>)>>)

FewRequests == [messages : {SomeMessages}, response_model : ResponseModels]
AllRequests == [messages : MessageInputs, response_model : ResponseModels]

Texts == {<<>>, <<" ">>, <<" ", "a">>, <<"b", "\n">>}

ReturnCodes == {0, 1, -9}

FewResults == {TimedOut(<<>>), Exit(0, <<" ", "a">>, <<>>), Exit(1, <<>>, <<"b", "\n">>)}
AllResults ==
    {TimedOut(out) : out \in Texts}
    \cup {Exit(rc, out, err) : rc \in ReturnCodes, out \in Texts, err \in Texts}

FewEffects == {Untouched, Deleted, Written(<<" ", "4", "2", "\n">>)}
AllEffects == {Untouched, Deleted} \cup {Written(x) : x \in Texts \ {<<>>}}

Step(t, reqs, results, effects) ==
    \/ Begin(t, reqs)
    \/ StageSchema(t)
    \/ WriteSchema(t)
    \/ WriteSchemaRaises(t)
    \/ CreateCapture(t)
    \/ CreateCaptureRaises(t)
    \/ Run(t, results, effects)
    \/ Decide(t)
    \/ CleanupCapture(t)
    \/ CleanupSchema(t)

InitCalls ==
    /\ fs = [p \in Paths |-> NoFile]
    /\ call = [t \in Threads |-> IdleCall]

\* the threads call one gateway instance concurrently
Init == cfg = DefaultConfig /\ InitCalls

Next == \E t \in Threads : Step(t, FewRequests, FewResults, FewEffects)

Spec == Init /\ [][Next]_vars

\* one call at a time, over every request and every behaviour of the child,
\* with and without a timeout
InitSeq == cfg \in {DefaultConfig, [DefaultConfig EXCEPT !.timeout = None]} /\ InitCalls

NextSeq == Step("t1", AllRequests, AllResults, AllEffects)

SpecSeq == InitSeq /\ [][NextSeq]_vars

\* one call at a time, over every configuration
InitConfigs == cfg \in Configs /\ InitCalls

NextConfigs == Step("t1", FewRequests, FewResults, FewEffects)

SpecConfigs == InitConfigs /\ [][NextConfigs]_vars

(***************************************************************************)
(* Properties                                                              *)
(***************************************************************************)
\* the files on disk that were created for the call of thread t
FilesOf(t) == {p \in Paths : fs[p].exists /\ fs[p].owner = t}

\* the call of thread t got as far as running the child process
ReachedExecution(t) == call[t].result.kind # "none"

\* C1: once a call that reached process execution has returned or raised
\* (response returned, non-zero exit raised, timeout raised), neither its
\* capture file nor its schema file is on disk, provided no delete failed.
C1_TempFilesRemoved ==
    \A t \in Threads :
        (/\ call[t].pc = "done"
         /\ ReachedExecution(t)
         /\ call[t].failed = {}) => FilesOf(t) = {}

\* one call timed out and one returned a response, each with a schema file and
\* a capture file that it deleted
C1_Witness ==
    /\ \A t \in Threads :
         /\ call[t].pc = "done"
         /\ call[t].attempted = {"capture", "schema"}
         /\ call[t].failed = {}
    /\ call["t1"].outcome.kind = "TimeoutExpired"
    /\ call["t2"].outcome.kind = "return"

\* C2: when building the schema file raises after the temporary schema file
\* was created, call() raises and the schema file is not on disk afterwards.
C2_SchemaFileRemovedOnBuildError ==
    \A t \in Threads :
        (call[t].pc = "done" /\ call[t].outcome.kind = "SchemaError")
            => FilesOf(t) \cap SchemaPaths = {}

\* the call of thread t may still read, write or delete its capture file
UsesCapture(t) ==
    call[t].pc \in {"run", "decide", "cleanup_capture"}
    /\ call[t].output_path # None

\* the call of thread t may still write or delete its schema file
UsesSchema(t) ==
    call[t].pc \in {"schema_write", "capture", "run", "decide",
                    "cleanup_capture", "cleanup_schema"}
    /\ call[t].schema_file # None

\* C7: while calls run concurrently, the capture and schema files a call is
\* still to read or delete are its own and are not those of another call, so
\* no call reads or deletes a file it did not create; the gateway's
\* configuration stays as constructed.
C7_CallsOwnTheirFiles ==
    /\ \A t \in Threads :
         /\ (UsesCapture(t) /\ Exists(fs, call[t].output_path))
              => fs[call[t].output_path].owner = t
         /\ (UsesSchema(t) /\ Exists(fs, call[t].schema_file))
              => fs[call[t].schema_file].owner = t
         /\ \A u \in Threads \ {t} :
              /\ (UsesCapture(t) /\ UsesCapture(u))
                   => call[t].output_path # call[u].output_path
              /\ (UsesSchema(t) /\ UsesSchema(u))
                   => call[t].schema_file # call[u].schema_file
    /\ cfg = DefaultConfig

\* C10: a failed delete during cleanup is swallowed: the pending return value
\* or exception is what the caller observes, and after the capture file's
\* block the schema file's block still runs and tries to delete the schema file.
C10_CleanupNeverMasks ==
    [][\A t \in Threads :
         /\ call[t].pc \in {"cleanup_capture", "cleanup_schema"}
              => call'[t].outcome = call[t].outcome
         /\ call[t].pc = "cleanup_capture"
              => call'[t].pc \in {"cleanup_capture", "cleanup_schema"}
         /\ (/\ call[t].pc = "cleanup_schema"
             /\ call'[t].pc # "cleanup_schema"
             /\ Exists(fs, call[t].schema_file))
              => /\ "schema" \in call'[t].attempted
                 /\ \/ ~fs'[call[t].schema_file].exists
                    \/ "schema" \in call'[t].failed]_vars

\* the capture file could not be deleted, the schema file was, and the call
\* still returned its response
C10_Witness ==
    \E t \in Threads :
        /\ call[t].pc = "done"
        /\ call[t].failed = {"capture"}
        /\ "schema" \in call[t].attempted
        /\ call[t].outcome.kind = "return"
        /\ FilesOf(t) \cap SchemaPaths = {}

\* the call of thread t has decided what it returns or raises
Decided(t) == call[t].pc \in {"cleanup_capture", "cleanup_schema", "done"}

\* the step in which the call of thread t, its child having exited with code
\* 0, extracts its response
Extracts(t) ==
    /\ call[t].pc = "decide"
    /\ call'[t].pc # "decide"
    /\ call[t].result.returncode = 0

\* C3: after a non-zero exit call() raises and never returns a response; the
\* message is the trimmed standard error if that is non-empty, else the
\* trimmed standard output if that is non-empty, else the generic text.
C3_NonZeroExitFails ==
    \A t \in Threads :
        (/\ Decided(t)
         /\ call[t].result.kind = "exit"
         /\ call[t].result.returncode # 0)
        => /\ call[t].outcome.kind = "RuntimeError"
           /\ call[t].outcome.value =
                IF Strip(call[t].result.stderr) # <<>> THEN Strip(call[t].result.stderr)
                ELSE IF Strip(call[t].result.stdout) # <<>> THEN Strip(call[t].result.stdout)
                ELSE <<"codex exec failed">>

\* killed by a signal, standard error blank, standard output not: the message
\* is the trimmed standard output although a capture file holds a response
C3_Witness ==
    \E t \in Threads :
        /\ call[t].pc = "cleanup_capture"
        /\ call[t].result.kind = "exit"
        /\ call[t].result.returncode = -9
        /\ call[t].result.stderr = <<" ">>
        /\ call[t].result.stdout = <<" ", "a">>
        /\ call[t].outcome = Raise("RuntimeError", <<"a">>)
        /\ Exists(fs, call[t].output_path)
        /\ fs[call[t].output_path].content = <<"b", "\n">>

\* C4: on a zero exit the returned value is the trimmed content of the capture
\* file if that file exists when the response is extracted (the empty string
\* for an empty file, whatever standard output holds), and the trimmed
\* standard output if it does not exist.
C4_ResponseFromCaptureFile ==
    [][\A t \in Threads :
         Extracts(t) =>
            call'[t].outcome =
                [kind |-> "return",
                 value |-> IF fs[call[t].output_path].exists
                           THEN Strip(fs[call[t].output_path].content)
                           ELSE Strip(call[t].result.stdout)]]_vars

\* the capture file holds one text and standard output another: the capture
\* file's text, trimmed, is returned
C4_Witness ==
    \E t \in Threads :
        /\ call[t].pc = "cleanup_capture"
        /\ call[t].result.kind = "exit"
        /\ call[t].result.returncode = 0
        /\ call[t].result.stdout = <<" ", "a">>
        /\ Exists(fs, call[t].output_path)
        /\ fs[call[t].output_path].content = <<"b", "\n">>
        /\ call[t].outcome = Return(<<"b">>)

\* C5, as claimed: after a zero exit with nothing written to the capture file
\* (the file is not both present and non-empty) call() returns the trimmed
\* standard output.
C5_StdoutUnlessCaptureNonEmpty ==
    [][\A t \in Threads :
         (/\ Extracts(t)
          /\ ~(/\ fs[call[t].output_path].exists
               /\ fs[call[t].output_path].content # <<>>))
         => call'[t].outcome = Return(Strip(call[t].result.stdout))]_vars

\* C5, amended: after a zero exit with nothing written to the capture file,
\* the empty file call() created is the response: the empty string is
\* returned and standard output is not consulted.  Standard output is
\* returned, trimmed, only when no capture file exists.
C5_EmptyCaptureIsTheResponse ==
    [][\A t \in Threads :
         Extracts(t) =>
            /\ (/\ fs[call[t].output_path].exists
                /\ fs[call[t].output_path].content = <<>>)
               => call'[t].outcome = Return(<<>>)
            /\ ~fs[call[t].output_path].exists
               => call'[t].outcome = Return(Strip(call[t].result.stdout))]_vars

\* the child printed a text and left the capture file empty: the empty string
\* was returned
C5_Witness ==
    \E t \in Threads :
        /\ call[t].pc = "cleanup_capture"
        /\ call[t].result.kind = "exit"
        /\ call[t].result.returncode = 0
        /\ call[t].result.stdout = <<" ", "a">>
        /\ Exists(fs, call[t].output_path)
        /\ fs[call[t].output_path].content = <<>>
        /\ call[t].outcome = Return(<<>>)

\* C6: when the child outlives the configured timeout, call() ends with the
\* timeout error, which is not the non-zero-exit error, and returns nothing.
C6_TimeoutRaises ==
    \A t \in Threads :
        call[t].result.kind = "timeout"
        => /\ cfg.timeout # None
           /\ Decided(t)
           /\ call[t].outcome.kind = "TimeoutExpired"
           /\ call[t].outcome.kind \notin {"return", "RuntimeError"}

\* the deadline passed after the child had printed a text and written a
\* response to the capture file: the call raised all the same
C6_Witness ==
    \E t \in Threads :
        /\ call[t].pc = "done"
        /\ call[t].result.kind = "timeout"
        /\ call[t].result.stdout = <<" ", "a">>
        /\ call[t].attempted = {"capture"}
        /\ call[t].outcome.kind = "TimeoutExpired"

\* the prompt of thread t is in use: between its construction and the child's run
HasPrompt(t) == call[t].pc \in {"schema", "schema_write", "capture", "run"}

NoOuterWhitespace(s) ==
    s = <<>> \/ (s[1] \notin {" ", "\n", "\t"} /\ s[Len(s)] \notin {" ", "\n", "\t"})

\* the line the claim gives for one message
ClaimedLine(m) ==
    Upper(IF m.hasRole THEN m.role ELSE <<"u", "s", "e", "r">>)
    \o <<":", " ">>
    \o (IF ~m.hasContent THEN <<>>
        ELSE IF m.isList THEN Join([i \in 1..Len(m.parts) |-> Str(m.parts[i])], <<" ">>)
        ELSE m.content)

ClaimedLines(msgs) == Join([i \in 1..Len(msgs) |-> ClaimedLine(msgs[i])], <<"\n">>)

\* C9, as claimed: the flattened prompt never starts or ends with whitespace;
\* a raw string yields itself trimmed, a message sequence its lines joined by
\* newlines and trimmed.
C9_PromptAlwaysTrimmed ==
    \A t \in Threads :
        HasPrompt(t) =>
            /\ NoOuterWhitespace(call[t].prompt)
            /\ call[t].prompt = IF call[t].messages.isStr
                                THEN Strip(call[t].messages.s)
                                ELSE Strip(ClaimedLines(call[t].messages.msgs))

\* C9, amended: a message sequence yields its lines joined by newlines and
\* trimmed, a prompt that never starts or ends with whitespace; a raw string
\* is the prompt as it stands, untrimmed.
C9_SequenceTrimmedStringUnchanged ==
    \A t \in Threads :
        HasPrompt(t) =>
            IF call[t].messages.isStr
            THEN call[t].prompt = call[t].messages.s
            ELSE /\ NoOuterWhitespace(call[t].prompt)
                 /\ call[t].prompt = Strip(ClaimedLines(call[t].messages.msgs))

\* two messages, the second one's content ending in a newline that the final
\* trim removed
C9_Witness ==
    \E t \in Threads :
        /\ call[t].pc = "run"
        /\ ~call[t].messages.isStr
        /\ Len(call[t].messages.msgs) = 2
        /\ call[t].messages.msgs[1].isList
        /\ ~call[t].messages.msgs[2].hasRole
        /\ call[t].prompt = <<"A", "S", "S", "T", ":", " ", "a", " ", "b", "\n",
                              "U", "S", "E", "R", ":">>

\* a flag, present when enabled
Flag(on, name) == IF on THEN <<name>> ELSE <<>>

\* a flag and its value, present when the value is configured
FlagPair(name, value) == IF value # None /\ value # "" THEN <<name, value>> ELSE <<>>

RECURSIVE FlagPairs(_, _)
FlagPairs(name, values) ==
    IF values = <<>> THEN <<>>
    ELSE <<name, Head(values)>> \o FlagPairs(name, Tail(values))

\* the argument list of the claim, for configuration c, a response model
\* given or not, and the two temporary paths
ClaimedCommand(c, given, schema, capture) ==
    <<c.codex_path, "exec", "-m", c.model>>
    \o FlagPair("--cd", c.codex_cd)
    \o Flag(c.codex_skip_git_repo_check, "--skip-git-repo-check")
    \o FlagPair("--sandbox", c.codex_sandbox)
    \o Flag(c.codex_full_auto, "--full-auto")
    \o Flag(c.codex_dangerously_bypass_approvals_and_sandbox,
            "--dangerously-bypass-approvals-and-sandbox")
    \o FlagPairs("--add-dir", c.codex_add_dir)
    \o FormatCodexOverrides(c.codex_config_overrides)
    \o (IF given THEN <<"--output-schema", schema>> ELSE <<>>)
    \o <<"--output-last-message", capture>>

\* C8: the argument list handed to the child is the binary path, exec, -m,
\* the model, then the configured flags in their fixed order, the override
\* flags, --output-schema with its path exactly when a response model was
\* given, and last --output-last-message with the capture path.
C8_CommandOrder ==
    \A t \in Threads :
        call[t].pc = "run" =>
            /\ call[t].cmd = ClaimedCommand(cfg, call[t].response_model # "none",
                                            call[t].schema_file, call[t].output_path)
            /\ SubSeq(call[t].cmd, Len(call[t].cmd) - 1, Len(call[t].cmd))
                 = <<"--output-last-message", call[t].output_path>>
            /\ call[t].output_path \in CapturePaths
            /\ (call[t].response_model # "none") = (call[t].schema_file \in SchemaPaths)
            /\ (call[t].response_model # "none")
                 = (\E i \in 1..Len(call[t].cmd) : call[t].cmd[i] = "--output-schema")

\* every optional flag configured, two extra directories, a mapping of
\* overrides with a skipped null entry, and a response model
C8_Witness ==
    \E t \in Threads :
        /\ call[t].pc = "run"
        /\ call[t].cmd =
             <<"codex", "exec", "-m", "gpt-5.2-codex", "--cd", "/w",
               "--skip-git-repo-check", "--sandbox", "read-only", "--full-auto",
               "--dangerously-bypass-approvals-and-sandbox",
               "--add-dir", "/y", "--add-dir", "/x",
               "-c", "a=1", "-c", "b=\"x\"",
               "--output-schema", call[t].schema_file,
               "--output-last-message", call[t].output_path>>

====
